---- MODULE Spec2Model ----
(***************************************************************************)
(* Model of app/services/purchase_service.py: the vending-machine purchase *)
(* transaction, the denomination validator (a modulo chain over the        *)
(* configured denominations, largest first) and the greedy change          *)
(* breakdown.                                                              *)
(*                                                                         *)
(* The database rows the service touches are the variables quantity,       *)
(* price, slot and current_item_count; settings.SUPPORTED_DENOMINATIONS is *)
(* the configured list, in configuration order.  call / raised / returned  *)
(* record the last call made, the exception it raised (Python's e.args,    *)
(* empty when none) and its return value; before_quantity and before_count *)
(* are the rows as they were when that call started.  ledger is kept for   *)
(* the properties of a whole run of purchases: the rows as they were at    *)
(* start-up and the number of successful purchases of each item since.     *)
(***************************************************************************)
EXTENDS Integers, Sequences, FiniteSets, TLC

VARIABLES SUPPORTED_DENOMINATIONS, quantity, price, slot, current_item_count,
          call, raised, returned, before_quantity, before_count,
          pc, session, ledger

vars == <<SUPPORTED_DENOMINATIONS, quantity, price, slot, current_item_count,
          call, raised, returned, before_quantity, before_count, pc, session,
          ledger>>

----------------------------------------------------------------------------
(* Bounds of the model. *)

\* longest configured denomination list
MaxDenoms == 2
\* largest denomination value
MaxDenomValue == 3
\* largest stock of an item at start
MaxQty == 2
\* largest item price
MaxPrice == 3
\* largest amount handed to purchase(), the validator or change_breakdown()
MaxCash == 5

----------------------------------------------------------------------------
(* The data the service works on. *)

\* rows of the items table
Items == {"a", "b"}
\* an id with no row
MissingId == "x"
ItemIds == Items \cup {MissingId}
\* rows of the slots table; item.slot is None for an item with no slot
Slots == {"s1", "s2"}
None == "None"
\* item.name
ItemName(i) == IF i = "a" THEN "Cola" ELSE "Chips"

\* amounts a caller can pass: negative, zero and positive integers
Amounts == {-1} \cup (0 .. MaxCash)

\* every list of 1..MaxDenoms positive denominations, in any order, repeats allowed
DenominationLists ==
    UNION {[1 .. n -> 1 .. MaxDenomValue] : n \in 1 .. MaxDenoms}

Processes == {1, 2}
\* what one purchase() call holds of its own: while it runs, its arguments
\* and the attributes of the Item and Slot objects loaded into its
\* request-scoped Session; once it is over, the exception it raised or the
\* dict it returned, and nothing else
NoSession == [item_id |-> None, cash_inserted |-> 0, quantity |-> 0,
              slot_count |-> 0, raised |-> <<>>, returned |-> None]
NoCall == [op |-> "none", item_id |-> None, amount |-> 0]
\* the ledger where none is kept
NoLedger == [quantity |-> <<>>, count |-> <<>>, sold |-> <<>>]

----------------------------------------------------------------------------
(* sorted(settings.SUPPORTED_DENOMINATIONS, reverse=True) *)

RECURSIVE InsertDescending(_, _)
InsertDescending(x, s) ==
    IF s = <<>> THEN <<x>>
    ELSE IF x >= Head(s) THEN <<x>> \o s
    ELSE <<Head(s)>> \o InsertDescending(x, Tail(s))

\* SortedReverse with the sort left out: the list as configured
SortedReverseAsConfigured(s) ==
    s

RECURSIVE SortedReverse(_)
SortedReverse(s) ==
    IF s = <<>> THEN <<>>
    ELSE InsertDescending(Head(s), SortedReverse(Tail(s)))

----------------------------------------------------------------------------
(* _is_valid_denomination_amount and _can_make_change *)

\* ModuloChain with the loop stopping one denomination early
RECURSIVE ModuloChainSkipsLast(_, _)
ModuloChainSkipsLast(denominations, remaining) ==
    IF Len(denominations) <= 1 THEN remaining
    ELSE ModuloChainSkipsLast(Tail(denominations),
                              remaining % Head(denominations))

\* for denom in denominations: remaining = remaining % denom
RECURSIVE ModuloChain(_, _)
ModuloChain(denominations, remaining) ==
    IF denominations = <<>> THEN remaining
    ELSE ModuloChain(Tail(denominations), remaining % Head(denominations))

\* IsValidAmountFor with the modulo chain left out: any positive amount passes
IsValidAmountForPositiveOnly(configured, amount) ==
    amount > 0

\* the validator over a given configuration list
IsValidAmountFor(configured, amount) ==
    IF amount <= 0 THEN FALSE
    ELSE ModuloChain(SortedReverse(configured), amount) = 0

is_valid_denomination_amount(amount) ==
    IsValidAmountFor(SUPPORTED_DENOMINATIONS, amount)

\* can_make_change without its own answer for a change of 0
can_make_change_validator_only(change) ==
    is_valid_denomination_amount(change)

can_make_change(change) ==
    IF change > 0 THEN is_valid_denomination_amount(change) ELSE TRUE

----------------------------------------------------------------------------
(* change_breakdown *)

\* result[key] = value on a Python dict, kept as its list of <<key, value>>
\* pairs in insertion order: an existing key keeps its place
RECURSIVE DictSet(_, _, _)
DictSet(d, key, value) ==
    IF d = <<>> THEN << <<key, value>> >>
    ELSE IF Head(d)[1] = key THEN << <<key, value>> >> \o Tail(d)
    ELSE <<Head(d)>> \o DictSet(Tail(d), key, value)

\* BreakdownLoop recording a denomination whatever its count
RECURSIVE BreakdownLoopKeepsZero(_, _, _)
BreakdownLoopKeepsZero(denominations, remaining, result) ==
    IF denominations = <<>> \/ remaining <= 0 THEN result
    ELSE LET d == Head(denominations)
             count == remaining \div d
         IN  BreakdownLoopKeepsZero(Tail(denominations), remaining - count * d,
                                    DictSet(result, ToString(d), count))

\* BreakdownLoop taking one coin of a denomination where it takes several
RECURSIVE BreakdownLoopOneEach(_, _, _)
BreakdownLoopOneEach(denominations, remaining, result) ==
    IF denominations = <<>> \/ remaining <= 0 THEN result
    ELSE LET d == Head(denominations)
             count == IF remaining >= d THEN 1 ELSE 0
         IN  IF count > 0
             THEN BreakdownLoopOneEach(Tail(denominations), remaining % d,
                                       DictSet(result, ToString(d), count))
             ELSE BreakdownLoopOneEach(Tail(denominations), remaining, result)

\* the for loop of change_breakdown, with its break on remaining <= 0
RECURSIVE BreakdownLoop(_, _, _)
BreakdownLoop(denominations, remaining, result) ==
    IF denominations = <<>> \/ remaining <= 0 THEN result
    ELSE LET d == Head(denominations)
             count == remaining \div d
         IN  IF count > 0
             THEN BreakdownLoop(Tail(denominations), remaining - count * d,
                                DictSet(result, ToString(d), count))
             ELSE BreakdownLoop(Tail(denominations), remaining, result)

ChangeBreakdownFor(configured, change) ==
    [change |-> change,
     denominations |-> BreakdownLoop(SortedReverse(configured), change, <<>>)]

change_breakdown(change) ==
    ChangeBreakdownFor(SUPPORTED_DENOMINATIONS, change)

----------------------------------------------------------------------------
(* purchase, as one sequential call *)

\* PurchaseError with the price check made before the stock check
PurchaseErrorPriceFirst(item_id, cash_inserted) ==
    IF ~is_valid_denomination_amount(cash_inserted)
    THEN <<"invalid_denomination">>
    ELSE IF item_id \notin Items
    THEN <<"item_not_found">>
    ELSE IF cash_inserted < price[item_id]
    THEN <<"insufficient_cash", price[item_id], cash_inserted>>
    ELSE IF quantity[item_id] <= 0
    THEN <<"out_of_stock">>
    ELSE IF ~can_make_change(cash_inserted - price[item_id])
    THEN <<"cannot_make_change">>
    ELSE <<>>

\* PurchaseError with the two values of insufficient_cash in the other order
PurchaseErrorArgsSwapped(item_id, cash_inserted) ==
    IF ~is_valid_denomination_amount(cash_inserted)
    THEN <<"invalid_denomination">>
    ELSE IF item_id \notin Items
    THEN <<"item_not_found">>
    ELSE IF quantity[item_id] <= 0
    THEN <<"out_of_stock">>
    ELSE IF cash_inserted < price[item_id]
    THEN <<"insufficient_cash", cash_inserted, price[item_id]>>
    ELSE IF ~can_make_change(cash_inserted - price[item_id])
    THEN <<"cannot_make_change">>
    ELSE <<>>

\* PurchaseError with the stock check written quantity < 0
PurchaseErrorStockBelowZero(item_id, cash_inserted) ==
    IF ~is_valid_denomination_amount(cash_inserted)
    THEN <<"invalid_denomination">>
    ELSE IF item_id \notin Items
    THEN <<"item_not_found">>
    ELSE IF quantity[item_id] < 0
    THEN <<"out_of_stock">>
    ELSE IF cash_inserted < price[item_id]
    THEN <<"insufficient_cash", price[item_id], cash_inserted>>
    ELSE IF ~can_make_change(cash_inserted - price[item_id])
    THEN <<"cannot_make_change">>
    ELSE <<>>

\* the ValueError purchase raises for these rows, <<>> when it raises none
PurchaseError(item_id, cash_inserted) ==
    IF ~is_valid_denomination_amount(cash_inserted)
    THEN <<"invalid_denomination">>
    ELSE IF item_id \notin Items
    THEN <<"item_not_found">>
    ELSE IF quantity[item_id] <= 0
    THEN <<"out_of_stock">>
    ELSE IF cash_inserted < price[item_id]
    THEN <<"insufficient_cash", price[item_id], cash_inserted>>
    ELSE IF ~can_make_change(cash_inserted - price[item_id])
    THEN <<"cannot_make_change">>
    ELSE <<>>

\* item.quantity -= 1
DecrementedQuantity(item_id) ==
    [quantity EXCEPT ![item_id] = @ - 1]

\* DecrementedCount with the slot left as it is
DecrementedCountSkipped(item_id) ==
    current_item_count

\* DecrementedCount that looks at the count first and leaves an empty slot alone
DecrementedCountGuarded(item_id) ==
    IF slot[item_id] # None /\ current_item_count[slot[item_id]] > 0
    THEN [current_item_count EXCEPT ![slot[item_id]] = @ - 1]
    ELSE current_item_count

\* if item.slot: item.slot.current_item_count -= 1
DecrementedCount(item_id) ==
    IF slot[item_id] # None
    THEN [current_item_count EXCEPT ![slot[item_id]] = @ - 1]
    ELSE current_item_count

\* the dict purchase returns, read after db.refresh(item)
PurchaseResult(item_id, cash_inserted, change, refreshed_quantity) ==
    [item |-> ItemName(item_id),
     price |-> price[item_id],
     cash_inserted |-> cash_inserted,
     change_returned |-> change,
     remaining_quantity |-> refreshed_quantity,
     message |-> "Purchase successful"]

\* purchase with the decrement made before the change check instead of after
PurchaseDecrementsBeforeChangeCheck(item_id, cash_inserted) ==
    LET error == PurchaseError(item_id, cash_inserted)
        reached == error = <<>> \/ error = <<"cannot_make_change">>
    IN
    /\ call' = [op |-> "purchase", item_id |-> item_id, amount |-> cash_inserted]
    /\ before_quantity' = quantity
    /\ before_count' = current_item_count
    /\ raised' = error
    /\ quantity' = IF reached THEN DecrementedQuantity(item_id) ELSE quantity
    /\ current_item_count' =
           IF reached THEN DecrementedCount(item_id) ELSE current_item_count
    /\ returned' = IF error # <<>> THEN None
                   ELSE PurchaseResult(item_id, cash_inserted,
                                       cash_inserted - price[item_id],
                                       quantity'[item_id])
    /\ UNCHANGED <<SUPPORTED_DENOMINATIONS, price, slot, pc, session>>

Purchase(item_id, cash_inserted) ==
    LET error == PurchaseError(item_id, cash_inserted) IN
    /\ call' = [op |-> "purchase", item_id |-> item_id, amount |-> cash_inserted]
    /\ before_quantity' = quantity
    /\ before_count' = current_item_count
    /\ raised' = error
    /\ IF error # <<>>
       THEN /\ returned' = None
            /\ UNCHANGED <<quantity, current_item_count>>
       ELSE /\ quantity' = DecrementedQuantity(item_id)
            /\ current_item_count' = DecrementedCount(item_id)
            /\ returned' = PurchaseResult(item_id, cash_inserted,
                                          cash_inserted - price[item_id],
                                          quantity'[item_id])
    /\ UNCHANGED <<SUPPORTED_DENOMINATIONS, price, slot, pc, session>>

----------------------------------------------------------------------------
(* calls of the two public pure functions *)

IsValidCall(amount) ==
    /\ call' = [op |-> "is_valid", item_id |-> None, amount |-> amount]
    /\ raised' = <<>>
    /\ returned' = is_valid_denomination_amount(amount)
    /\ before_quantity' = quantity
    /\ before_count' = current_item_count
    /\ UNCHANGED <<SUPPORTED_DENOMINATIONS, quantity, price, slot,
                   current_item_count, pc, session>>

\* change_breakdown sorting the configured list itself (list.sort) instead
\* of a copy of it
ChangeBreakdownCallSortsInPlace(amount) ==
    /\ call' = [op |-> "change_breakdown", item_id |-> None, amount |-> amount]
    /\ raised' = <<>>
    /\ returned' = change_breakdown(amount)
    /\ before_quantity' = quantity
    /\ before_count' = current_item_count
    /\ SUPPORTED_DENOMINATIONS' = SortedReverse(SUPPORTED_DENOMINATIONS)
    /\ UNCHANGED <<quantity, price, slot, current_item_count, pc, session>>

ChangeBreakdownCall(amount) ==
    /\ call' = [op |-> "change_breakdown", item_id |-> None, amount |-> amount]
    /\ raised' = <<>>
    /\ returned' = change_breakdown(amount)
    /\ before_quantity' = quantity
    /\ before_count' = current_item_count
    /\ UNCHANGED <<SUPPORTED_DENOMINATIONS, quantity, price, slot,
                   current_item_count, pc, session>>

----------------------------------------------------------------------------
(* The service after start-up: a configured denomination list, the rows of *)
(* two items and two slots, no call made yet.  Item a lies in slot s1 with *)
(* any price and stock within the bounds; item b lies in no slot, costs 2  *)
(* and has at most one unit; slot s2 holds nothing.                        *)

Init ==
    /\ SUPPORTED_DENOMINATIONS \in DenominationLists
    /\ quantity \in {q \in [Items -> 0 .. MaxQty] : q["b"] <= 1}
    /\ price \in {p \in [Items -> 1 .. MaxPrice] : p["b"] = 2}
    /\ slot = [i \in Items |-> IF i = "a" THEN "s1" ELSE None]
    /\ current_item_count = [s \in Slots |-> IF s = "s1" THEN quantity["a"] ELSE 0]
    /\ call = NoCall
    /\ raised = <<>>
    /\ returned = None
    /\ before_quantity = quantity
    /\ before_count = current_item_count
    /\ pc = [p \in Processes |-> "idle"]
    /\ session = [p \in Processes |-> NoSession]
    /\ ledger = NoLedger

Next ==
    \/ \E item_id \in ItemIds, cash_inserted \in Amounts :
           Purchase(item_id, cash_inserted) /\ UNCHANGED ledger
    \/ \E amount \in Amounts : IsValidCall(amount) /\ UNCHANGED ledger
    \/ \E amount \in Amounts : ChangeBreakdownCall(amount) /\ UNCHANGED ledger

Spec == Init /\ [][Next]_vars

----------------------------------------------------------------------------
(* purchase, as the steps of two concurrent calls.  Each call has its own   *)
(* Session: the query of line 12 loads the item row into it, line 29 works  *)
(* on the loaded attribute, item.slot loads the slot row when line 30       *)
(* reaches it, and db.commit() writes the attributes the call changed.  A   *)
(* step holds at most one read or write of the stored rows.                 *)

\* lines 9-26: validate, load the item, run the four checks on what was loaded
Check(p, item_id, cash_inserted) ==
    LET error == PurchaseError(item_id, cash_inserted) IN
    /\ pc[p] = "idle"
    /\ pc' = [pc EXCEPT ![p] = IF error = <<>> THEN "checked" ELSE "done"]
    /\ session' = [session EXCEPT ![p] =
           IF error # <<>>
           THEN [NoSession EXCEPT !.raised = error]
           ELSE [item_id |-> item_id,
                 cash_inserted |-> cash_inserted,
                 quantity |-> quantity[item_id],
                 slot_count |-> 0,
                 raised |-> <<>>,
                 returned |-> None]]
    /\ UNCHANGED <<SUPPORTED_DENOMINATIONS, quantity, price, slot,
                   current_item_count, call, raised, returned,
                   before_quantity, before_count>>

\* lines 29-31: decrement the loaded quantity; load the slot and decrement it
Decrement(p) ==
    LET i == session[p].item_id IN
    /\ pc[p] = "checked"
    /\ pc' = [pc EXCEPT ![p] = "decremented"]
    /\ session' = [session EXCEPT
           ![p].quantity = @ - 1,
           ![p].slot_count = IF slot[i] # None
                             THEN current_item_count[slot[i]] - 1
                             ELSE @]
    /\ UNCHANGED <<SUPPORTED_DENOMINATIONS, quantity, price, slot,
                   current_item_count, call, raised, returned,
                   before_quantity, before_count>>

\* Commit that goes through only if the stored quantity is still the one the
\* call checked (a version check on the row)
CommitIfUnchanged(p) ==
    LET i == session[p].item_id IN
    /\ pc[p] = "decremented"
    /\ quantity[i] = session[p].quantity + 1
    /\ pc' = [pc EXCEPT ![p] = "done"]
    /\ quantity' = [quantity EXCEPT ![i] = session[p].quantity]
    /\ current_item_count' =
           IF slot[i] # None
           THEN [current_item_count EXCEPT ![slot[i]] = session[p].slot_count]
           ELSE current_item_count
    /\ session' = [session EXCEPT ![p] = [NoSession EXCEPT !.returned =
           PurchaseResult(i, session[p].cash_inserted,
                          session[p].cash_inserted - price[i], quantity'[i])]]
    /\ UNCHANGED <<SUPPORTED_DENOMINATIONS, price, slot, call, raised,
                   returned, before_quantity, before_count>>

\* lines 33-43: write the changed attributes, refresh the item, return
Commit(p) ==
    LET i == session[p].item_id IN
    /\ pc[p] = "decremented"
    /\ pc' = [pc EXCEPT ![p] = "done"]
    /\ quantity' = [quantity EXCEPT ![i] = session[p].quantity]
    /\ current_item_count' =
           IF slot[i] # None
           THEN [current_item_count EXCEPT ![slot[i]] = session[p].slot_count]
           ELSE current_item_count
    /\ session' = [session EXCEPT ![p] = [NoSession EXCEPT !.returned =
           PurchaseResult(i, session[p].cash_inserted,
                          session[p].cash_inserted - price[i], quantity'[i])]]
    /\ UNCHANGED <<SUPPORTED_DENOMINATIONS, price, slot, call, raised,
                   returned, before_quantity, before_count>>

NextConcurrent ==
    \/ \E p \in Processes, item_id \in ItemIds, cash_inserted \in Amounts :
           Check(p, item_id, cash_inserted) /\ UNCHANGED ledger
    \/ \E p \in Processes : Decrement(p) /\ UNCHANGED ledger
    \/ \E p \in Processes : Commit(p) /\ UNCHANGED ledger

\* two purchase() calls, their steps interleaved in any order
SpecConcurrent == Init /\ [][NextConcurrent]_vars

----------------------------------------------------------------------------
(* A run of sequential purchase() calls with the ledger kept.  Item b lies  *)
(* in slot s1 beside item a, or in no slot; the count of s1 starts at the   *)
(* sum of the quantities of the items in it, or at 0 whatever they are.     *)
(* The denominations are configured largest first without repeats: neither  *)
(* the stock nor the slot count is read by the validator.                   *)

\* the sum of the quantities q of the items lying in slot s
RECURSIVE SumOver(_, _)
SumOver(q, items) ==
    IF items = {} THEN 0
    ELSE LET i == CHOOSE x \in items : TRUE
         IN  q[i] + SumOver(q, items \ {i})

LinkedQuantity(q, s) == SumOver(q, {i \in Items : slot[i] = s})

InitStock ==
    /\ SUPPORTED_DENOMINATIONS \in
           {l \in DenominationLists :
                \A k \in 1 .. (Len(l) - 1) : l[k] > l[k + 1]}
    /\ quantity \in {q \in [Items -> 0 .. MaxQty] : q["b"] <= 1}
    /\ price \in {p \in [Items -> 1 .. MaxPrice] : p["b"] = 2}
    /\ slot \in {l \in [Items -> Slots \cup {None}] :
                     l["a"] = "s1" /\ l["b"] \in {"s1", None}}
    /\ current_item_count \in
           {c \in [Slots -> 0 .. (MaxQty + 1)] :
                /\ c["s1"] \in {0, LinkedQuantity(quantity, "s1")}
                /\ c["s2"] = 0}
    /\ call = NoCall
    /\ raised = <<>>
    /\ returned = None
    /\ before_quantity = quantity
    /\ before_count = current_item_count
    /\ pc = [p \in Processes |-> "idle"]
    /\ session = [p \in Processes |-> NoSession]
    /\ ledger = [quantity |-> quantity,
                 count |-> current_item_count,
                 sold |-> [i \in Items |-> 0]]

\* one purchase() call, entered in the ledger when it returns the success dict
LedgerPurchase(item_id, cash_inserted) ==
    /\ Purchase(item_id, cash_inserted)
    /\ ledger' = IF raised' = <<>>
                 THEN [ledger EXCEPT !.sold[item_id] = @ + 1]
                 ELSE ledger

NextStock ==
    \E item_id \in ItemIds, cash_inserted \in Amounts :
        LedgerPurchase(item_id, cash_inserted)

SpecStock == InitStock /\ [][NextStock]_vars

----------------------------------------------------------------------------
(* What the properties below speak about. *)

\* the last call was purchase(); its arguments
IsPurchase == call.op = "purchase"
PurchaseFailed == IsPurchase /\ raised # <<>>
PurchaseSucceeded == IsPurchase /\ raised = <<>>
ErrorName == IF raised = <<>> THEN "" ELSE raised[1]

PurchaseErrors ==
    <<"invalid_denomination", "item_not_found", "out_of_stock",
      "insufficient_cash", "cannot_make_change">>

\* the configured denominations as a set
DenominationSet ==
    {SUPPORTED_DENOMINATIONS[k] : k \in DOMAIN SUPPORTED_DENOMINATIONS}

\* amount is a sum of values of S, repetition allowed (0 is the empty sum)
Representable(S, amount) ==
    LET sums[k \in 0 .. (IF amount < 0 THEN 0 ELSE amount)] ==
            k = 0 \/ \E d \in S : d <= k /\ sums[k - d]
    IN  amount >= 0 /\ sums[amount]

----------------------------------------------------------------------------
\* C1: a purchase() that fails, with any of the five errors, leaves the
\* quantity of every item and the current_item_count of every slot as they
\* were before the call; a call that changed any of them is a purchase()
\* that returned the success outcome.
C1_FailedPurchaseMutatesNothing ==
    /\ PurchaseFailed =>
          /\ \E k \in DOMAIN PurchaseErrors : ErrorName = PurchaseErrors[k]
          /\ quantity = before_quantity
          /\ current_item_count = before_count
    /\ (quantity # before_quantity \/ current_item_count # before_count) =>
          /\ PurchaseSucceeded
          /\ returned.message = "Purchase successful"

\* a purchase stopped by the last check before the decrement, stock in hand
C1_Witness ==
    /\ PurchaseFailed
    /\ ErrorName = "cannot_make_change"
    /\ quantity[call.item_id] > 0
    /\ slot[call.item_id] # None

----------------------------------------------------------------------------
\* C2: a successful purchase(item_id, cash) takes exactly 1 from the quantity
\* of that item, exactly 1 from the count of its slot when it has one and
\* from no slot otherwise, changes no other item or slot, and returns
\* change_returned = cash - price, remaining_quantity = quantity before - 1,
\* cash_inserted = cash and the message "Purchase successful"; so
\* cash_inserted = price + change_returned with change_returned >= 0.
C2_SuccessfulPurchaseEffect ==
    PurchaseSucceeded =>
        LET i == call.item_id
            cash == call.amount
        IN  /\ i \in Items
            /\ \A j \in Items :
                   quantity[j] = before_quantity[j] - (IF j = i THEN 1 ELSE 0)
            /\ \A s \in Slots :
                   current_item_count[s] =
                       before_count[s] - (IF slot[i] = s THEN 1 ELSE 0)
            /\ returned.change_returned = cash - price[i]
            /\ returned.remaining_quantity = before_quantity[i] - 1
            /\ returned.cash_inserted = cash
            /\ returned.price = price[i]
            /\ returned.message = "Purchase successful"
            /\ returned.cash_inserted = returned.price + returned.change_returned
            /\ returned.change_returned >= 0

\* the last unit of the item in a slot is sold and change is due
C2_Witness ==
    /\ PurchaseSucceeded
    /\ slot[call.item_id] # None
    /\ returned.change_returned > 0
    /\ returned.remaining_quantity = 0

----------------------------------------------------------------------------
\* C3: purchase() reports the first failing check in the order
\* invalid_denomination, item_not_found, out_of_stock, insufficient_cash,
\* cannot_make_change: the error raised is the earliest one whose condition
\* held when the call started, and the purchase succeeds exactly when none
\* of the five conditions held.

\* the condition of the k-th error, on the rows as they were before the call
C3_Condition(k) ==
    LET i == call.item_id
        cash == call.amount
    IN  CASE k = 1 -> ~is_valid_denomination_amount(cash)
          [] k = 2 -> i \notin Items
          [] k = 3 -> i \in Items /\ before_quantity[i] <= 0
          [] k = 4 -> i \in Items /\ cash < price[i]
          [] k = 5 -> i \in Items /\ ~can_make_change(cash - price[i])

C3_FirstFailingCheckReported ==
    IsPurchase =>
        /\ \A k \in DOMAIN PurchaseErrors :
               ErrorName = PurchaseErrors[k] <=>
                   (C3_Condition(k) /\ \A j \in 1 .. (k - 1) : ~C3_Condition(j))
        /\ raised = <<>> <=> \A k \in DOMAIN PurchaseErrors : ~C3_Condition(k)

\* an item out of stock is asked for with accepted cash below its price
C3_Witness ==
    /\ IsPurchase
    /\ C3_Condition(3)
    /\ C3_Condition(4)
    /\ ~C3_Condition(1)
    /\ ErrorName = "out_of_stock"

----------------------------------------------------------------------------
\* C4: in every successful purchase the cash accepted, and the change
\* cash - price when it is positive, are each a sum of denomination values
\* with repetition.
C4_AcceptedAmountsRepresentable ==
    PurchaseSucceeded =>
        /\ Representable(DenominationSet, returned.cash_inserted)
        /\ returned.change_returned > 0 =>
               Representable(DenominationSet, returned.change_returned)

\* a sale with change due under a denomination list that has no 1 in it
C4_Witness ==
    /\ PurchaseSucceeded
    /\ returned.change_returned > 0
    /\ 1 \notin DenominationSet
    /\ Cardinality(DenominationSet) > 1

----------------------------------------------------------------------------
\* C5: _is_valid_denomination_amount(amount) is true exactly when amount > 0
\* and amount is a non-negative integer combination of the supported
\* denominations.
C5_ValidatorDecidesRepresentability ==
    call.op = "is_valid" =>
        (returned <=>
            (call.amount > 0 /\ Representable(DenominationSet, call.amount)))

----------------------------------------------------------------------------
\* C6: when the denomination list contains 1, _is_valid_denomination_amount
\* is true for every amount > 0 and false for every amount <= 0, which is
\* what representability gives there; over 1, 2, 5, 10 it accepts 18 and
\* rejects 0 and -5.
C6_ValidatorWithUnitDenomination ==
    /\ (call.op = "is_valid" /\ 1 \in DenominationSet) =>
          /\ returned <=> call.amount > 0
          /\ returned <=>
               (call.amount > 0 /\ Representable(DenominationSet, call.amount))
    /\ IsValidAmountFor(<<1, 2, 5, 10>>, 18)
    /\ ~IsValidAmountFor(<<1, 2, 5, 10>>, 0)
    /\ ~IsValidAmountFor(<<1, 2, 5, 10>>, -5)

\* a positive amount that no other configured denomination divides is accepted
C6_Witness ==
    /\ call.op = "is_valid"
    /\ 1 \in DenominationSet
    /\ \E d \in DenominationSet : d > 1 /\ call.amount % d # 0
    /\ call.amount > 1
    /\ returned = TRUE

----------------------------------------------------------------------------
\* C7: a purchase that passed the denomination, existence, stock and
\* cash >= price checks.
C7_ReachedChangeCheck ==
    /\ IsPurchase
    /\ is_valid_denomination_amount(call.amount)
    /\ call.item_id \in Items
    /\ before_quantity[call.item_id] > 0
    /\ call.amount >= price[call.item_id]

\* C7 as stated: such a purchase is rejected with cannot_make_change exactly
\* when the validator returns false for the change cash - price, for every
\* change >= 0.
C7_RejectedIffValidatorFails ==
    C7_ReachedChangeCheck =>
        (ErrorName = "cannot_make_change" <=>
            ~is_valid_denomination_amount(call.amount - price[call.item_id]))

\* C7 amended: such a purchase is rejected with cannot_make_change exactly
\* when the change cash - price is positive and the validator returns false
\* for it; a change of 0 is never rejected, although the validator returns
\* false for 0.
C7_RejectedIffPositiveChangeFails ==
    C7_ReachedChangeCheck =>
        LET change == call.amount - price[call.item_id]
        IN  /\ ErrorName = "cannot_make_change" <=>
                   (change > 0 /\ ~is_valid_denomination_amount(change))
            /\ change = 0 =>
                   (raised = <<>> /\ ~is_valid_denomination_amount(change))

\* the exact price is paid and the purchase goes through
C7_Witness ==
    /\ C7_ReachedChangeCheck
    /\ call.amount = price[call.item_id]
    /\ PurchaseSucceeded
    /\ returned.change_returned = 0

----------------------------------------------------------------------------
\* C8: for every amount >= 0, change_breakdown(amount) is the greedy
\* largest-first decomposition: over the denominations in descending order,
\* count = remaining // denom and remaining loses count * denom; the result
\* holds exactly the denominations with count > 0, in descending order, is
\* empty for 0, and its "change" is the amount given; 18 over 10, 5, 2, 1
\* gives 10:1, 5:1, 2:1, 1:1.

\* what is left of amount once every value of S above d has taken its share
RECURSIVE C8_RemainingAt(_, _, _)
C8_RemainingAt(S, d, amount) ==
    LET above == {x \in S : x > d}
    IN  IF above = {} THEN amount
        ELSE LET next == CHOOSE x \in above : \A y \in above : x <= y
             IN  C8_RemainingAt(S, next, amount) % next

C8_GreedyCount(S, d, amount) == C8_RemainingAt(S, d, amount) \div d

C8_BreakdownIsGreedy ==
    /\ (call.op = "change_breakdown" /\ call.amount >= 0) =>
          LET S == DenominationSet
              amount == call.amount
              pairs == returned.denominations
              used == {d \in S : C8_GreedyCount(S, d, amount) > 0}
          IN  /\ returned.change = amount
              /\ Len(pairs) = Cardinality(used)
              /\ \A k \in DOMAIN pairs :
                     \E d \in used :
                         /\ pairs[k] = <<ToString(d), C8_GreedyCount(S, d, amount)>>
                         /\ Cardinality({x \in used : x > d}) = k - 1
              /\ amount = 0 => pairs = <<>>
    /\ ChangeBreakdownFor(<<10, 5, 2, 1>>, 18) =
          [change |-> 18,
           denominations |-> << <<"10", 1>>, <<"5", 1>>, <<"2", 1>>, <<"1", 1>> >>]

\* two denominations are used, one of them more than once
C8_Witness ==
    /\ call.op = "change_breakdown"
    /\ call.amount > 0
    /\ Len(returned.denominations) = 2
    /\ returned.denominations[1][2] + returned.denominations[2][2] > 2

----------------------------------------------------------------------------
\* C9: when the cash passes the validator, the item exists with quantity > 0
\* and cash < price, purchase() raises insufficient_cash carrying exactly
\* (item price, cash inserted) in that order; insufficient_cash is never
\* raised when cash >= price.
C9_InsufficientCash ==
    IsPurchase =>
        LET i == call.item_id
            cash == call.amount
        IN  /\ ( /\ is_valid_denomination_amount(cash)
                 /\ i \in Items
                 /\ before_quantity[i] > 0
                 /\ cash < price[i] ) =>
                   raised = <<"insufficient_cash", price[i], cash>>
            /\ ErrorName = "insufficient_cash" =>
                   (i \in Items /\ cash < price[i])

\* too little cash for an item in stock, the two values differing
C9_Witness ==
    /\ IsPurchase
    /\ ErrorName = "insufficient_cash"
    /\ raised[2] = price[call.item_id]
    /\ raised[3] = call.amount
    /\ raised[2] > raised[3]

----------------------------------------------------------------------------
\* C10: two purchase() calls on the same item are not guarded against
\* interleaving: nothing between a call's stock check and its commit looks
\* at the stored quantity again, so a call that passed the check always goes
\* on to decrement and commit what it read at the check, and returns
\* success; when both calls check before either commits, both succeed on an
\* item that had one unit: two units are sold and one decrement is lost.

\* the process has returned the success dict for this item
C10_Sold(p, i) ==
    /\ pc[p] = "done"
    /\ session[p].raised = <<>>
    /\ session[p].returned.item = ItemName(i)

C10_NothingGuardsTheCommit ==
    \A p \in Processes :
        /\ pc[p] = "checked" =>
               (ENABLED Decrement(p) /\ session[p].quantity >= 1)
        /\ pc[p] = "decremented" =>
               (ENABLED Commit(p) /\ session[p].quantity >= 0)
        /\ (pc[p] = "done" /\ session[p].raised = <<>>) =>
               /\ session[p].returned.message = "Purchase successful"
               /\ session[p].returned.remaining_quantity >= 0

\* both calls sold the item that had a single unit in stock
C10_Witness ==
    \E i \in Items :
        /\ before_quantity[i] = 1
        /\ \A p \in Processes :
               C10_Sold(p, i) /\ session[p].returned.remaining_quantity = 0
        /\ quantity[i] = 0

----------------------------------------------------------------------------
\* C11: change_breakdown and _is_valid_denomination_amount are pure: a call
\* of either, made at any point of a run and between purchases, returns
\* what the function gives for the configured list and the amount alone,
\* and leaves the configured denomination list (its order included), every
\* item quantity and every slot count as they were; so the same amount
\* gives the same result again.
C11_PureFunctionsChangeNothing ==
    [][ (call'.op = "is_valid" \/ call'.op = "change_breakdown") =>
            /\ SUPPORTED_DENOMINATIONS' = SUPPORTED_DENOMINATIONS
            /\ quantity' = quantity
            /\ current_item_count' = current_item_count
            /\ price' = price
            /\ slot' = slot
            /\ call'.op = "is_valid" =>
                   /\ returned' = IsValidAmountFor(SUPPORTED_DENOMINATIONS,
                                                   call'.amount)
                   /\ returned' = IsValidAmountFor(SUPPORTED_DENOMINATIONS',
                                                   call'.amount)
            /\ call'.op = "change_breakdown" =>
                   /\ returned' = ChangeBreakdownFor(SUPPORTED_DENOMINATIONS,
                                                     call'.amount)
                   /\ returned' = ChangeBreakdownFor(SUPPORTED_DENOMINATIONS',
                                                     call'.amount)
      ]_vars

\* a breakdown was computed over a list configured smallest first, which
\* is still configured smallest first
C11_Witness ==
    /\ call.op = "change_breakdown"
    /\ Len(SUPPORTED_DENOMINATIONS) >= 2
    /\ SUPPORTED_DENOMINATIONS[1] < SUPPORTED_DENOMINATIONS[2]
    /\ Len(returned.denominations) >= 2
    /\ quantity = before_quantity

----------------------------------------------------------------------------
\* C12: for every amount > 0 the counts change_breakdown(amount) returns
\* add up to the amount (sum of denomination * count) if and only if
\* _is_valid_denomination_amount(amount) is true; the remainder dropped is
\* non-zero exactly for the amounts the validator rejects, and the change of
\* every successful purchase (0 or an amount the validator accepts) is
\* given back in full by change_breakdown.

\* the denomination a key of the result stands for: str(d) read back
C12_KeyValue(key) ==
    CHOOSE d \in DenominationSet : ToString(d) = key

\* sum of denomination * count over the pairs of a result
RECURSIVE C12_Total(_)
C12_Total(pairs) ==
    IF pairs = <<>> THEN 0
    ELSE C12_KeyValue(Head(pairs)[1]) * Head(pairs)[2] + C12_Total(Tail(pairs))

C12_BreakdownExactIffValid ==
    /\ (call.op = "change_breakdown" /\ call.amount > 0) =>
          LET dropped == call.amount - C12_Total(returned.denominations)
          IN  /\ dropped >= 0
              /\ dropped = 0 <=> is_valid_denomination_amount(call.amount)
              /\ dropped # 0 <=> ~is_valid_denomination_amount(call.amount)
    /\ PurchaseSucceeded =>
          LET change == returned.change_returned
          IN  /\ change = 0 \/ is_valid_denomination_amount(change)
              /\ C12_Total(change_breakdown(change).denominations) = change

\* coins are handed out for part of an amount the validator rejects
C12_Witness ==
    /\ call.op = "change_breakdown"
    /\ call.amount > 0
    /\ ~is_valid_denomination_amount(call.amount)
    /\ returned.denominations # <<>>
    /\ C12_Total(returned.denominations) < call.amount

----------------------------------------------------------------------------
\* C13: in a run of sequential purchase() calls on an item that started
\* with quantity q >= 0, the quantity is never negative, the number of
\* successful purchases of the item is at most q and equals q minus the
\* current quantity, and once the quantity is 0 it stays 0: every later
\* purchase of the item with cash the validator accepts fails with
\* out_of_stock.
C13_StockNeverOversold ==
    /\ \A i \in Items :
          /\ quantity[i] >= 0
          /\ ledger.sold[i] <= ledger.quantity[i]
          /\ ledger.sold[i] = ledger.quantity[i] - quantity[i]
          /\ before_quantity[i] = 0 => quantity[i] = 0
    /\ ( /\ IsPurchase
         /\ call.item_id \in Items
         /\ is_valid_denomination_amount(call.amount) ) =>
            (before_quantity[call.item_id] = 0 => raised = <<"out_of_stock">>)

\* both units of an item were sold and a further purchase of it is refused
C13_Witness ==
    /\ IsPurchase
    /\ call.item_id \in Items
    /\ ledger.quantity[call.item_id] >= 2
    /\ ledger.sold[call.item_id] = ledger.quantity[call.item_id]
    /\ is_valid_denomination_amount(call.amount)
    /\ call.amount >= price[call.item_id]
    /\ raised = <<"out_of_stock">>

----------------------------------------------------------------------------
\* C14: for a slot whose current_item_count started equal to the sum of the
\* quantities of the items in it, the two are equal after any run of
\* sequential purchase() calls, successful or failed, so the count is never
\* negative; purchase() does not look at the count before decrementing it:
\* a purchase goes through whenever none of its five checks fails, and then
\* takes 1 from the count of the item's slot whatever that count was.
C14_SlotCountFollowsStock ==
    /\ \A s \in Slots :
          ledger.count[s] = LinkedQuantity(ledger.quantity, s) =>
              /\ current_item_count[s] = LinkedQuantity(quantity, s)
              /\ current_item_count[s] >= 0
    /\ IsPurchase =>
          /\ (\A k \in DOMAIN PurchaseErrors : ~C3_Condition(k)) =>
                 PurchaseSucceeded
          /\ (PurchaseSucceeded /\ slot[call.item_id] # None) =>
                 current_item_count[slot[call.item_id]] =
                     before_count[slot[call.item_id]] - 1

\* a slot holding two items, units of both sold, then a purchase refused:
\* the count still is the sum of what is left
C14_Witness ==
    /\ \A i \in Items : slot[i] = "s1" /\ ledger.sold[i] >= 1
    /\ ledger.count["s1"] = LinkedQuantity(ledger.quantity, "s1")
    /\ PurchaseFailed
    /\ current_item_count["s1"] = LinkedQuantity(quantity, "s1")
    /\ current_item_count["s1"] > 0

----------------------------------------------------------------------------
\* C15: the results of _is_valid_denomination_amount and change_breakdown
\* depend on the set of configured values only, not on the order of the
\* configured list nor on values repeated in it: both work on the values
\* largest first, and the validator's answer is that of the modulo chain
\* (remaining := remaining mod denom from the largest denomination to the
\* smallest, valid iff amount > 0 and the final remainder is 0).

\* the values of S, each once, largest first
RECURSIVE C15_LargestFirst(_)
C15_LargestFirst(S) ==
    IF S = {} THEN <<>>
    ELSE LET m == CHOOSE x \in S : \A y \in S : x >= y
         IN  <<m>> \o C15_LargestFirst(S \ {m})

\* the configured list read backwards, and with every value given twice
C15_Reversed ==
    [k \in DOMAIN SUPPORTED_DENOMINATIONS |->
        SUPPORTED_DENOMINATIONS[Len(SUPPORTED_DENOMINATIONS) + 1 - k]]
C15_Doubled == SUPPORTED_DENOMINATIONS \o C15_Reversed

C15_ResultsDependOnSetOnly ==
    /\ call.op = "is_valid" =>
          /\ returned <=>
                 ( /\ call.amount > 0
                   /\ ModuloChain(C15_LargestFirst(DenominationSet),
                                  call.amount) = 0 )
          /\ returned = IsValidAmountFor(C15_Reversed, call.amount)
          /\ returned = IsValidAmountFor(C15_Doubled, call.amount)
    /\ call.op = "change_breakdown" =>
          /\ returned =
                 [change |-> call.amount,
                  denominations |->
                      BreakdownLoop(C15_LargestFirst(DenominationSet),
                                    call.amount, <<>>)]
          /\ returned = ChangeBreakdownFor(C15_Reversed, call.amount)
          /\ returned = ChangeBreakdownFor(C15_Doubled, call.amount)

\* an amount is accepted over a list configured smallest first, where the
\* chain taken in the configured order would end on a remainder
C15_Witness ==
    /\ call.op = "is_valid"
    /\ Len(SUPPORTED_DENOMINATIONS) >= 2
    /\ SUPPORTED_DENOMINATIONS[1] < SUPPORTED_DENOMINATIONS[2]
    /\ returned = TRUE
    /\ ModuloChain(SUPPORTED_DENOMINATIONS, call.amount) # 0

====
